---- MODULE Spec2Model ----
(***************************************************************************)
(* Model of data-engineer/pipeline.py: the XML repair-order pipeline.      *)
(*                                                                         *)
(*   parse_xml          pure function over a list of documents             *)
(*   window_by_datetime resamples the event table (and mutates it)         *)
(*   process_to_RO      pure function over the window mapping              *)
(*   pipeline           the run: read, parse, window, build, store         *)
(*                                                                         *)
(* Exceptions are modelled as the `exc` field of a result record, "none"   *)
(* meaning a normal return.                                                *)
(***************************************************************************)
EXTENDS Integers, Sequences, FiniteSets, TLC

VARIABLES
    files,          \* parse_xml: its argument, a sequence of documents
    parsed,         \* parse_xml: its outcome ([exc |-> "pending"] before the call)
    data,           \* window_by_datetime: the table passed in (mutated in place)
    window,         \* window_by_datetime: the width string
    w_d1,           \* outcome of the first call on `data`
    w_d2,           \* outcome of the second call on the same `data`
    ro_in,          \* process_to_RO: its argument, an ordered mapping
    ro_out,         \* process_to_RO: its outcome
    pc,             \* pipeline: position in the run
    args,           \* pipeline: its arguments, the directory and the width
    run,            \* pipeline: its locals (xml_files, parsed_data, ...)
    sink,           \* pipeline: the sink operations performed, in order
    caught,         \* pipeline: the except clause that handled the failure
    raised          \* pipeline: the exception that left pipeline()

vars == <<files, parsed, data, window, w_d1, w_d2, ro_in, ro_out,
          pc, args, run, sink, caught, raised>>

parseVars == <<files, parsed>>
windowVars == <<data, window, w_d1, w_d2>>
roVars == <<ro_in, ro_out>>
pipeVars == <<pc, args, run, sink, caught, raised>>

----------------------------------------------------------------------------
(* Bounds of the model. *)

MaxDocs == 2
MaxEvents == 2
MaxRows == 3
MaxGroups == 2

----------------------------------------------------------------------------
(* Generic helpers. *)

SeqsUpTo(S, n) == UNION {[1..k -> S] : k \in 0..n}

RECURSIVE Flatten(_)
Flatten(ss) == IF ss = <<>> THEN <<>> ELSE Head(ss) \o Flatten(Tail(ss))

Pending == [exc |-> "pending"]

\* A pandas cell: a value, or NaN (float('nan') and the fill of an empty bin).
Val(v) == [isna |-> FALSE, val |-> v]
NaN == [isna |-> TRUE]

----------------------------------------------------------------------------
(* XML documents.  A document is malformed or a tree; the tree is kept as  *)
(* the sequence of its nodes in document order, each with its tag and its  *)
(* depth below the root.  A child element is absent (find() returns None), *)
(* present without text (.text is None) or present with text.              *)

Absent == "<absent>"
NoText == "<notext>"

\* float(text): the texts Python accepts, in hundredths; anything else raises ValueError.
FloatOf == [t \in {"150.75", "80", " 12 ", "nan"} |->
                CASE t = "150.75" -> Val(15075)
                  [] t = "80"     -> Val(8000)
                  [] t = " 12 "   -> Val(1200)
                  [] t = "nan"    -> NaN]

\* int(text): the texts Python accepts; anything else raises ValueError.
IntOf == [t \in {"1", "2"} |-> IF t = "1" THEN 1 ELSE 2]

GoodParts == << [name |-> "bolt", quantity |-> "2"], [name |-> "seal", quantity |-> "1"] >>

GoodA == [tag |-> "event", depth |-> 1, order_id |-> "A1", date_time |-> "2023-08-10T08:00:00",
          status |-> "In Progress", cost |-> "150.75", technician |-> "Jane", parts |-> GoodParts]

GoodB == [tag |-> "event", depth |-> 2, order_id |-> "B2", date_time |-> "2023-08-10T08:30:00",
          status |-> "Completed", cost |-> "80", technician |-> "Omar", parts |-> <<>>]

\* The nodes documents are built from: two valid events (one nested deeper in the
\* tree), a node that is no event, and one event per way of being malformed.
Nodes ==
    { GoodA, GoodB,
      [GoodA EXCEPT !.tag = "note"],
      [GoodA EXCEPT !.order_id = Absent],
      [GoodA EXCEPT !.date_time = NoText],
      [GoodB EXCEPT !.status = NoText],
      [GoodA EXCEPT !.technician = Absent],
      [GoodB EXCEPT !.cost = Absent],
      [GoodA EXCEPT !.cost = "abc"],
      [GoodA EXCEPT !.cost = NoText],
      [GoodA EXCEPT !.order_id = Absent, !.cost = NoText],
      [GoodA EXCEPT !.parts = << [name |-> "bolt", quantity |-> "two"] >>],
      [GoodA EXCEPT !.parts = << [name |-> Absent, quantity |-> "2"] >>] }

Malformed == [wellformed |-> FALSE, nodes |-> <<>>]

Doc(ns) == [wellformed |-> TRUE, nodes |-> ns]

\* The inputs of parse_xml: at most d documents holding at most n nodes in all.
RECURSIVE Inputs(_, _)
Inputs(d, n) ==
    IF d = 0 THEN {<<>>}
    ELSE {<<>>}
         \cup {<<Malformed>> \o rest : rest \in Inputs(d - 1, n)}
         \cup UNION {{<<Doc(ns)>> \o rest : ns \in [1..k -> Nodes], rest \in Inputs(d - 1, n - k)} :
                        k \in 0..n}

----------------------------------------------------------------------------
(* parse_xml *)

\* pipeline.py:53-54, one element of the list comprehension.
ParsePart(p) ==
    IF p.name = Absent \/ p.quantity = Absent THEN [exc |-> "KeyError"]
    ELSE IF p.quantity \notin DOMAIN IntOf THEN [exc |-> "ValueError"]
    ELSE [exc |-> "none", pair |-> <<p.name, IntOf[p.quantity]>>]

RECURSIVE ParseParts(_)
ParseParts(ps) ==
    IF ps = <<>> THEN [exc |-> "none", parts |-> <<>>]
    ELSE LET h == ParsePart(Head(ps)) IN
         IF h.exc # "none" THEN [exc |-> h.exc]
         ELSE LET t == ParseParts(Tail(ps)) IN
              IF t.exc # "none" THEN [exc |-> t.exc]
              ELSE [exc |-> "none", parts |-> <<h.pair>> \o t.parts]

\* Python truthiness of an element's text: None and "" are falsy.
Falsy(text) == text = NoText \/ text = ""

\* pipeline.py:48-67, the body of the inner try, statement by statement.
ParseEvent(ev) ==
    IF ev.order_id = Absent THEN [exc |-> "AttributeError"]
    ELSE IF ev.date_time = Absent THEN [exc |-> "AttributeError"]
    ELSE IF ev.status = Absent THEN [exc |-> "AttributeError"]
    ELSE IF ev.cost = Absent THEN [exc |-> "AttributeError"]
    ELSE IF ev.cost = NoText THEN [exc |-> "TypeError"]
    ELSE IF ev.cost \notin DOMAIN FloatOf THEN [exc |-> "ValueError"]
    ELSE IF ev.technician = Absent THEN [exc |-> "AttributeError"]
    ELSE LET ps == ParseParts(ev.parts) IN
         IF ps.exc # "none" THEN [exc |-> ps.exc]
         ELSE IF Falsy(ev.order_id) \/ Falsy(ev.date_time) \/ Falsy(ev.status)
                 \/ Falsy(ev.technician)
              THEN [exc |-> "ValueError"]
         ELSE [exc |-> "none",
               row |-> [order_id |-> ev.order_id, date_time |-> ev.date_time,
                        status |-> ev.status, cost |-> FloatOf[ev.cost],
                        technician |-> ev.technician, parts |-> ps.parts]]

\* pipeline.py:68, the exceptions the inner try swallows.
SkipsEvent(exc) == exc \in {"AttributeError", "ValueError"}

\* The nodes of `ns` with the given tag, in document order; children of the root
\* only when `childrenOnly`.
RECURSIVE NodesTagged(_, _, _)
NodesTagged(ns, tag, childrenOnly) ==
    IF ns = <<>> THEN <<>>
    ELSE (IF Head(ns).tag = tag /\ (childrenOnly => Head(ns).depth = 1)
          THEN <<Head(ns)>> ELSE <<>>) \o NodesTagged(Tail(ns), tag, childrenOnly)

\* root.findall('event') in place of root.iter('event'): children of the root only.
IterEvents_TopLevelOnly(doc) == NodesTagged(doc.nodes, "event", TRUE)

\* pipeline.py:46, root.iter('event'): every event node of the tree, in document order.
IterEvents(doc) == NodesTagged(doc.nodes, "event", FALSE)

\* pipeline.py:46-70, the loop over one document's events, appending to `acc`.
RECURSIVE ParseEvents(_, _)
ParseEvents(evs, acc) ==
    IF evs = <<>> THEN [exc |-> "none", data |-> acc]
    ELSE LET r == ParseEvent(Head(evs)) IN
         IF r.exc = "none" THEN ParseEvents(Tail(evs), Append(acc, r.row))
         ELSE IF SkipsEvent(r.exc) THEN ParseEvents(Tail(evs), acc)
         ELSE [exc |-> r.exc, data |-> acc]

\* pipeline.py:39-70, the loop over the documents.
RECURSIVE ParseDocs(_, _)
ParseDocs(fs, acc) ==
    IF fs = <<>> THEN [exc |-> "none", data |-> acc]
    ELSE IF ~Head(fs).wellformed THEN ParseDocs(Tail(fs), acc)
    ELSE LET r == ParseEvents(IterEvents(Head(fs)), acc) IN
         IF r.exc # "none" THEN r ELSE ParseDocs(Tail(fs), r.data)

\* pipeline.py:35-79.  An exception leaves no table behind.
parse_xml(fs) ==
    LET r == ParseDocs(fs, <<>>) IN
    IF r.exc # "none" THEN [exc |-> r.exc]
    ELSE IF r.data = <<>> THEN [exc |-> "ValueError"]
    ELSE [exc |-> "none", data |-> r.data]

InitParse ==
    /\ files \in Inputs(MaxDocs, MaxEvents)
    /\ parsed = Pending

CallParse ==
    /\ parsed = Pending
    /\ parsed' = parse_xml(files)
    /\ UNCHANGED files

NextParse == CallParse /\ UNCHANGED <<windowVars, roVars, pipeVars>>

----------------------------------------------------------------------------
(* The event table (a pandas DataFrame): the set of its columns, its index *)
(* ("range" as built by pd.DataFrame(list), "date_time" after set_index)   *)
(* and its rows.  Time is counted in minutes from 2023-08-10T00:00:00.     *)

Day == 24 * 60

\* pd.to_datetime(text): the texts it parses; anything else raises ValueError.
ToDatetime == [t \in {"2023-08-10T08:00:00", "2023-08-10T08:30:00",
                      "2023-08-10T09:15:00", "2023-08-11T01:00:00"} |->
                  CASE t = "2023-08-10T08:00:00" -> 8 * 60
                    [] t = "2023-08-10T08:30:00" -> 8 * 60 + 30
                    [] t = "2023-08-10T09:15:00" -> 9 * 60 + 15
                    [] t = "2023-08-11T01:00:00" -> Day + 60]

\* The frequency strings used, in minutes.
WidthOf == [f \in {"1h", "1D", "7h"} |->
               CASE f = "1h" -> 60 [] f = "1D" -> Day [] f = "7h" -> 7 * 60]

\* groupby sorts its keys: the order identifiers in ascending order.
OrderIds == <<"A1", "B2">>

AllColumns == {"order_id", "date_time", "status", "cost", "technician", "parts"}

EmptyTable == [columns |-> {}, index |-> "range", rows |-> <<>>]

\* pipeline.py:79, pd.DataFrame(data) of a non-empty list of rows.
DataFrame(rows) ==
    IF rows = <<>> THEN EmptyTable
    ELSE [columns |-> AllColumns, index |-> "range", rows |-> rows]

\* Stable sort by time (the mergesort the resampler applies to an unsorted index).
RECURSIVE InsertByTime(_, _)
InsertByTime(r, sorted) ==
    IF sorted = <<>> THEN <<r>>
    ELSE IF Head(sorted).date_time <= r.date_time
         THEN <<Head(sorted)>> \o InsertByTime(r, Tail(sorted))
         ELSE <<r>> \o sorted

RECURSIVE SortByTime(_)
SortByTime(rows) ==
    IF rows = <<>> THEN <<>>
    ELSE InsertByTime(rows[Len(rows)], SortByTime(SubSeq(rows, 1, Len(rows) - 1)))

RECURSIVE RowsWhere(_, _, _)
RowsWhere(rows, lo, hi) ==
    IF rows = <<>> THEN <<>>
    ELSE (IF lo <= Head(rows).date_time /\ Head(rows).date_time < hi
          THEN <<Head(rows)>> ELSE <<>>) \o RowsWhere(Tail(rows), lo, hi)

RECURSIVE RowsOfOrder(_, _)
RowsOfOrder(rows, o) ==
    IF rows = <<>> THEN <<>>
    ELSE (IF Head(rows).order_id = o THEN <<Head(rows)>> ELSE <<>>)
         \o RowsOfOrder(Tail(rows), o)

\* resample/Grouper with the default origin 'start_day': bins are anchored at
\* midnight of the day of the first timestamp of the series being binned.
BinStart(t, first, w) ==
    LET origin == (first \div Day) * Day IN t - ((t - origin) % w)

\* The labels of the bins from the first timestamp's to the last's, left-closed.
RECURSIVE BinsFrom(_, _, _)
BinsFrom(b, last, w) == IF b > last THEN <<>> ELSE <<b>> \o BinsFrom(b + w, last, w)

BinLabels(sorted, w) ==
    LET first == sorted[1].date_time
        last == sorted[Len(sorted)].date_time
    IN BinsFrom(BinStart(first, first, w), last, w)

\* As a cell: the input's object columns hold plain values, cost holds a float cell.
AsCell(col, v) == IF col = "cost" THEN v ELSE Val(v)

\* GroupBy.first() in place of last(): the first non-null entry of the column.
RECURSIVE LastCell_First(_, _)
LastCell_First(members, col) ==
    IF members = <<>> THEN NaN
    ELSE LET c == AsCell(col, members[1][col]) IN
         IF c.isna THEN LastCell_First(Tail(members), col) ELSE c

\* GroupBy.last(): the last non-null entry of the column, NaN when there is none.
RECURSIVE LastCell(_, _)
LastCell(members, col) ==
    IF members = <<>> THEN NaN
    ELSE LET c == AsCell(col, members[Len(members)][col]) IN
         IF c.isna THEN LastCell(SubSeq(members, 1, Len(members) - 1), col) ELSE c

\* One row of .resample(window).last() for the bin labelled b.  The grouping
\* column order_id is among the resampled columns (process_to_RO reads it back from
\* the row), so an empty bin leaves it NaN like the others.
ResampledRow(members, b) ==
    [date_time |-> b,
     order_id |-> LastCell(members, "order_id"),
     status |-> LastCell(members, "status"),
     cost |-> LastCell(members, "cost"),
     technician |-> LastCell(members, "technician"),
     parts |-> LastCell(members, "parts")]

RECURSIVE ResampleBins(_, _, _)
ResampleBins(sorted, bins, w) ==
    IF bins = <<>> THEN <<>>
    ELSE <<ResampledRow(RowsWhere(sorted, Head(bins), Head(bins) + w), Head(bins))>>
         \o ResampleBins(sorted, Tail(bins), w)

\* pipeline.py:87, .resample(window).last() of one order's rows.
ResampleLast(rows, w) ==
    LET sorted == SortByTime(rows) IN ResampleBins(sorted, BinLabels(sorted, w), w)

\* pipeline.py:87, groupby('order_id')...: the orders' results, in key order.
RECURSIVE GroupbyResample(_, _, _)
GroupbyResample(rows, orders, w) ==
    IF orders = <<>> THEN <<>>
    ELSE LET mine == RowsOfOrder(rows, Head(orders)) IN
         (IF mine = <<>> THEN <<>> ELSE ResampleLast(mine, w))
         \o GroupbyResample(rows, Tail(orders), w)

RECURSIVE GroupBins(_, _, _)
GroupBins(sorted, bins, w) ==
    IF bins = <<>> THEN <<>>
    ELSE <<[key |-> Head(bins), rows |-> RowsWhere(sorted, Head(bins), Head(bins) + w)]>>
         \o GroupBins(sorted, Tail(bins), w)

\* pipeline.py:88-90, the loop over groupby(pd.Grouper(key='date_time', freq=window)):
\* one entry per bin of the grid, empty bins included, in bin order.
Regroup(grouped, w) ==
    IF grouped = <<>> THEN <<>>
    ELSE LET sorted == SortByTime(grouped) IN GroupBins(sorted, BinLabels(sorted, w), w)

RECURSIVE ConvertDates(_)
ConvertDates(rows) ==
    IF rows = <<>> THEN <<>>
    ELSE <<[Head(rows) EXCEPT !.date_time = ToDatetime[@]]>> \o ConvertDates(Tail(rows))

\* pipeline.py:85-86, what the call leaves in the caller's table.
SetIndex(t) ==
    [columns |-> t.columns \ {"date_time"}, index |-> "date_time",
     rows |-> ConvertDates(t.rows)]

\* pipeline.py:82-96.  `data` is the table once the call is over.
window_by_datetime(t, freq) ==
    IF "date_time" \notin t.columns THEN [exc |-> "KeyError", data |-> t]
    ELSE IF \E i \in 1..Len(t.rows) : t.rows[i].date_time \notin DOMAIN ToDatetime
         THEN [exc |-> "ValueError", data |-> t]
    ELSE LET after == SetIndex(t)
             w_d == Regroup(GroupbyResample(after.rows, OrderIds, WidthOf[freq]), WidthOf[freq])
         IN IF w_d = <<>> THEN [exc |-> "ValueError", data |-> after]
            ELSE [exc |-> "none", w_d |-> w_d, data |-> after]

\* What the caller gets: the mapping, or the exception.
Outcome(r) == IF r.exc = "none" THEN [exc |-> "none", w_d |-> r.w_d] ELSE [exc |-> r.exc]

\* The event rows tables are built from, as parse_xml produces them: order A1 at
\* four times in three states (one with a NaN cost), order B2 on either day, and
\* one row whose date_time pd.to_datetime rejects.
EventRows ==
    {[order_id |-> "A1", date_time |-> d, status |-> v.status, cost |-> v.cost,
      technician |-> v.technician, parts |-> v.parts] :
        d \in DOMAIN ToDatetime,
        v \in {[status |-> "Received", cost |-> Val(8000), technician |-> "Jane",
                parts |-> <<>>],
               [status |-> "In Progress", cost |-> Val(15075), technician |-> "Omar",
                parts |-> << <<"bolt", 2>> >>],
               [status |-> "Completed", cost |-> NaN, technician |-> "Jane",
                parts |-> << <<"seal", 1>> >>]}}
    \cup
    {[order_id |-> "B2", date_time |-> d, status |-> "Received", cost |-> Val(1200),
      technician |-> "Omar", parts |-> <<>>] :
        d \in {"2023-08-10T08:00:00", "2023-08-11T01:00:00", "yesterday-ish"}}

InitWindow ==
    /\ data \in {DataFrame(rows) : rows \in SeqsUpTo(EventRows, MaxRows)}
    /\ window \in DOMAIN WidthOf
    /\ w_d1 = Pending
    /\ w_d2 = Pending

CallWindow ==
    /\ w_d1 = Pending
    /\ LET r == window_by_datetime(data, window) IN
         /\ w_d1' = Outcome(r)
         /\ data' = r.data
    /\ UNCHANGED <<window, w_d2>>

CallWindowAgain ==
    /\ w_d1 # Pending
    /\ w_d2 = Pending
    /\ LET r == window_by_datetime(data, window) IN
         /\ w_d2' = Outcome(r)
         /\ data' = r.data
    /\ UNCHANGED <<window, w_d1>>

NextWindow ==
    \/ CallWindow /\ UNCHANGED <<parseVars, roVars, pipeVars>>
    \/ CallWindowAgain /\ UNCHANGED <<parseVars, roVars, pipeVars>>

----------------------------------------------------------------------------
(* process_to_RO.  The mapping is a dict: its entries in insertion order.  *)

\* pipeline.py:99-106, RO.__init__.
RO(row) ==
    [order_id |-> row.order_id, date_time |-> row.date_time, status |-> row.status,
     cost |-> row.cost, technician |-> row.technician, parts |-> row.parts]

RECURSIVE ROsOfRows(_)
ROsOfRows(rows) ==
    IF rows = <<>> THEN <<>> ELSE <<RO(Head(rows))>> \o ROsOfRows(Tail(rows))

\* pipeline.py:116-126, the two loops.
RECURSIVE ROsOfEntries(_)
ROsOfEntries(m) ==
    IF m = <<>> THEN <<>> ELSE ROsOfRows(Head(m).rows) \o ROsOfEntries(Tail(m))

\* pipeline.py:128: the message reads the loop variable `window`, which is unbound
\* when the mapping has no entry.
EmptyResultError(m) == IF m = <<>> THEN "UnboundLocalError" ELSE "ValueError"

\* pipeline.py:112-133.
process_to_RO(m) ==
    LET records == ROsOfEntries(m) IN
    IF records = <<>> THEN [exc |-> EmptyResultError(m)]
    ELSE [exc |-> "none", records |-> records]

\* Rows as the windower leaves them: two last observations and one empty-bin fill.
WindowedRows(k) ==
    { [date_time |-> k, order_id |-> Val("A1"), status |-> Val("Received"),
       cost |-> Val(8000), technician |-> Val("Jane"), parts |-> Val(<<>>)],
      [date_time |-> k, order_id |-> Val("B2"), status |-> Val("Completed"),
       cost |-> NaN, technician |-> Val("Omar"), parts |-> Val(<< <<"seal", 1>> >>)],
      [date_time |-> k, order_id |-> NaN, status |-> NaN,
       cost |-> NaN, technician |-> NaN, parts |-> NaN] }

\* Mappings of up to MaxGroups entries with ascending keys, an hour apart.
RECURSIVE Mappings(_, _)
Mappings(n, k) ==
    IF n = 0 THEN {<<>>}
    ELSE {<<>>} \cup
         UNION {{<<[key |-> k, rows |-> rs]>> \o rest : rest \in Mappings(n - 1, k + 60)} :
                    rs \in SeqsUpTo(WindowedRows(k), MaxGroups)}

InitRO ==
    /\ ro_in \in Mappings(MaxGroups, 8 * 60)
    /\ ro_out = Pending

CallRO ==
    /\ ro_out = Pending
    /\ ro_out' = process_to_RO(ro_in)
    /\ UNCHANGED ro_in

NextRO == CallRO /\ UNCHANGED <<parseVars, windowVars, pipeVars>>

----------------------------------------------------------------------------
(* pipeline.  A directory is absent or a listing of files, each with its   *)
(* extension and its content.                                              *)

NoDir == [exists |-> FALSE, entries |-> <<>>]

\* pipeline.py:14-32.
read_files_from_dir(d) ==
    IF ~d.exists THEN [exc |-> "FileNotFoundError"]
    ELSE LET xml == [i \in 1..Len(d.entries) |-> d.entries[i]] IN
         LET contents == Flatten([i \in 1..Len(xml) |->
                                     IF xml[i].xml THEN <<xml[i].content>> ELSE <<>>]) IN
         IF contents = <<>> THEN [exc |-> "FileNotFoundError"]
         ELSE [exc |-> "none", files |-> contents]

\* The files directories are built from.
DirEntries ==
    { [xml |-> FALSE, content |-> Doc(<<GoodA>>)],
      [xml |-> TRUE, content |-> Malformed],
      [xml |-> TRUE, content |-> Doc(<<GoodA, GoodB>>)],
      [xml |-> TRUE, content |-> Doc(<<[GoodA EXCEPT !.date_time = "2023-08-11T01:00:00"]>>)],
      [xml |-> TRUE, content |-> Doc(<<[GoodA EXCEPT !.cost = "abc"]>>)],
      [xml |-> TRUE, content |-> Doc(<<[GoodA EXCEPT !.cost = NoText]>>)],
      [xml |-> TRUE, content |-> Doc(<<[GoodB EXCEPT !.date_time = "yesterday-ish"]>>)] }

Unset == [set |-> FALSE]
Set(v) == [set |-> TRUE, v |-> v]

\* The sink opened before the input is read.
Steps_ConnectFirst ==
    <<"connect", "create", "read", "parse", "window", "process", "insert", "commit", "close">>

\* pipeline.py:137-172, the statements of the try block in order.
Steps ==
    <<"read", "parse", "window", "process", "connect", "create", "insert", "commit", "close">>

StepAfter(s) ==
    LET i == CHOOSE j \in 1..Len(Steps) : Steps[j] = s IN
    IF i = Len(Steps) THEN "done" ELSE Steps[i + 1]

\* pipeline.py:173-180, the first except clause that matches.
Handler(exc) ==
    CASE exc = "FileNotFoundError" -> "FileNotFoundError"
      [] exc = "ValueError" -> "ValueError"
      [] exc = "DatabaseError" -> "DatabaseError"
      [] OTHER -> "Exception"

\* pipeline.py:173-180: every clause logs and falls off the end of pipeline().
Propagated(exc) == "none"

InitPipeline ==
    /\ args \in [dir : {NoDir} \cup {[exists |-> TRUE, entries |-> es] :
                                        es \in SeqsUpTo(DirEntries, MaxDocs)},
                 window : DOMAIN WidthOf]
    /\ pc = Steps[1]
    /\ run = [xml_files |-> Unset, parsed_data |-> Unset, windowed_data |-> Unset,
              structured_ro |-> Unset, inserted |-> 0]
    /\ sink = <<>>
    /\ caught = "none"
    /\ raised = "none"

\* An exception raised inside the try block.
Fail(exc) ==
    /\ pc' = "done"
    /\ caught' = Handler(exc)
    /\ raised' = Propagated(exc)

Advance ==
    /\ pc' = StepAfter(pc)
    /\ UNCHANGED <<caught, raised>>

\* pipeline.py:139-142.
Read ==
    /\ pc = "read"
    /\ LET r == read_files_from_dir(args.dir) IN
         IF r.exc # "none" THEN Fail(r.exc) /\ UNCHANGED run
         ELSE IF r.files = <<>> THEN Fail("FileNotFoundError") /\ UNCHANGED run
         ELSE Advance /\ run' = [run EXCEPT !.xml_files = Set(r.files)]
    /\ UNCHANGED <<args, sink>>

\* pipeline.py:145-148.
Parse ==
    /\ pc = "parse"
    /\ LET r == IF run.xml_files.set THEN parse_xml(run.xml_files.v)
                ELSE [exc |-> "UnboundLocalError"] IN
         IF r.exc # "none" THEN Fail(r.exc) /\ UNCHANGED run
         ELSE IF r.data = <<>> THEN Fail("ValueError") /\ UNCHANGED run
         ELSE Advance /\ run' = [run EXCEPT !.parsed_data = Set(DataFrame(r.data))]
    /\ UNCHANGED <<args, sink>>

\* pipeline.py:151-154.  The call changes parsed_data in place.
Window ==
    /\ pc = "window"
    /\ LET r == window_by_datetime(run.parsed_data.v, args.window) IN
         IF r.exc # "none"
         THEN Fail(r.exc) /\ run' = [run EXCEPT !.parsed_data = Set(r.data)]
         ELSE IF r.w_d = <<>>
         THEN Fail("ValueError") /\ run' = [run EXCEPT !.parsed_data = Set(r.data)]
         ELSE Advance /\ run' = [run EXCEPT !.parsed_data = Set(r.data),
                                            !.windowed_data = Set(r.w_d)]
    /\ UNCHANGED <<args, sink>>

\* pipeline.py:157-160.
Process ==
    /\ pc = "process"
    /\ LET r == process_to_RO(run.windowed_data.v) IN
         IF r.exc # "none" THEN Fail(r.exc) /\ UNCHANGED run
         ELSE IF r.records = <<>> THEN Fail("ValueError") /\ UNCHANGED run
         ELSE Advance /\ run' = [run EXCEPT !.structured_ro = Set(r.records)]
    /\ UNCHANGED <<args, sink>>

\* A sink call that raises: a sqlite3.DatabaseError, or a sqlite3.Error that is
\* none (InterfaceError).  sqlite3 refuses to bind ro.date_time, a pandas Timestamp,
\* with ProgrammingError (a DatabaseError) or, before Python 3.11, InterfaceError.
SinkFails ==
    /\ pc \in {"connect", "create", "insert", "commit"}
    /\ \E exc \in {"DatabaseError", "InterfaceError"} : Fail(exc)
    /\ UNCHANGED <<args, run, sink>>

\* pipeline.py:163-164.
Connect ==
    /\ pc = "connect"
    /\ sink' = Append(sink, "connect")
    /\ Advance
    /\ UNCHANGED <<args, run>>

\* pipeline.py:165-166.
CreateTable ==
    /\ pc = "create"
    /\ sink' = Append(sink, "create")
    /\ Advance
    /\ UNCHANGED <<args, run>>

\* pipeline.py:167-169, one turn of the loop (or leaving it).
Insert ==
    /\ pc = "insert"
    /\ IF run.structured_ro.set /\ run.inserted < Len(run.structured_ro.v)
       THEN /\ sink' = Append(sink, "insert")
            /\ run' = [run EXCEPT !.inserted = @ + 1]
            /\ UNCHANGED <<pc, caught, raised>>
       ELSE /\ Advance
            /\ UNCHANGED <<run, sink>>
    /\ UNCHANGED args

\* pipeline.py:170.
Commit ==
    /\ pc = "commit"
    /\ sink' = Append(sink, "commit")
    /\ Advance
    /\ UNCHANGED <<args, run>>

\* pipeline.py:171.
Close ==
    /\ pc = "close"
    /\ sink' = Append(sink, "close")
    /\ Advance
    /\ UNCHANGED <<args, run>>

NextPipeline ==
    \/ Read /\ UNCHANGED <<parseVars, windowVars, roVars>>
    \/ Parse /\ UNCHANGED <<parseVars, windowVars, roVars>>
    \/ Window /\ UNCHANGED <<parseVars, windowVars, roVars>>
    \/ Process /\ UNCHANGED <<parseVars, windowVars, roVars>>
    \/ SinkFails /\ UNCHANGED <<parseVars, windowVars, roVars>>
    \/ Connect /\ UNCHANGED <<parseVars, windowVars, roVars>>
    \/ CreateTable /\ UNCHANGED <<parseVars, windowVars, roVars>>
    \/ Insert /\ UNCHANGED <<parseVars, windowVars, roVars>>
    \/ Commit /\ UNCHANGED <<parseVars, windowVars, roVars>>
    \/ Close /\ UNCHANGED <<parseVars, windowVars, roVars>>

----------------------------------------------------------------------------
(* Specifications: one per operation studied.  The variables of the other  *)
(* operations stay at rest.                                                *)

ParseIdle == files = <<>> /\ parsed = Pending
WindowIdle == data = EmptyTable /\ window = "1h" /\ w_d1 = Pending /\ w_d2 = Pending
ROIdle == ro_in = <<>> /\ ro_out = Pending
PipelineIdle ==
    /\ args = [dir |-> NoDir, window |-> "1h"]
    /\ pc = "done"
    /\ run = [xml_files |-> Unset, parsed_data |-> Unset, windowed_data |-> Unset,
              structured_ro |-> Unset, inserted |-> 0]
    /\ sink = <<>>
    /\ caught = "none"
    /\ raised = "none"

InitSpecParse == InitParse /\ WindowIdle /\ ROIdle /\ PipelineIdle
InitSpecWindow == InitWindow /\ ParseIdle /\ ROIdle /\ PipelineIdle
InitSpecRO == InitRO /\ ParseIdle /\ WindowIdle /\ PipelineIdle

SpecParse == InitSpecParse /\ [][NextParse]_vars
SpecWindow == InitSpecWindow /\ [][NextWindow]_vars
SpecRO == InitSpecRO /\ [][NextRO]_vars

Init == InitPipeline /\ ParseIdle /\ WindowIdle /\ ROIdle
Next == NextPipeline
Spec == Init /\ [][Next]_vars

----------------------------------------------------------------------------
(* Claims about parse_xml, checked under SpecParse.                        *)

RequiredFields == {"order_id", "date_time", "status", "cost", "technician"}

\* A required scalar field is missing or empty, or cost is not numeric.
ScalarFault(n) ==
    \/ \E f \in RequiredFields : n[f] \in {Absent, NoText, ""}
    \/ n.cost \notin DOMAIN FloatOf

PartsFault(n) ==
    \E i \in 1..Len(n.parts) :
        \/ n.parts[i].name = Absent
        \/ n.parts[i].quantity \notin DOMAIN IntOf

WellFormedEvent(n) == n.tag = "event" /\ ~ScalarFault(n) /\ ~PartsFault(n)

\* The event nodes of the well-formed documents, in document and traversal order.
EventNodesOf(fs) ==
    Flatten([d \in 1..Len(fs) |->
               IF fs[d].wellformed
               THEN Flatten([i \in 1..Len(fs[d].nodes) |->
                               IF fs[d].nodes[i].tag = "event"
                               THEN <<fs[d].nodes[i]>> ELSE <<>>])
               ELSE <<>>])

\* The row a well-formed event stands for.
ExpectedRow(n) ==
    [order_id |-> n.order_id, date_time |-> n.date_time, status |-> n.status,
     cost |-> FloatOf[n.cost], technician |-> n.technician,
     parts |-> [i \in 1..Len(n.parts) |-> <<n.parts[i].name, IntOf[n.parts[i].quantity]>>]]

ExpectedRows(fs) ==
    LET evs == EventNodesOf(fs) IN
    Flatten([i \in 1..Len(evs) |->
               IF WellFormedEvent(evs[i]) THEN <<ExpectedRow(evs[i])>> ELSE <<>>])

Returned(r) == r # Pending

\* C1: an event with a missing or empty required scalar field, or a non-numeric
\* cost, is discarded alone: when every faulty event of the input is of that kind,
\* parse_xml raises nothing because of it and returns the rows of all the valid
\* events (the empty-result ValueError when there is none).
C1_FaultyEventIsDiscardedAlone ==
    (/\ Returned(parsed)
     /\ \E i \in 1..Len(EventNodesOf(files)) : ScalarFault(EventNodesOf(files)[i])
     /\ \A i \in 1..Len(EventNodesOf(files)) :
            WellFormedEvent(EventNodesOf(files)[i]) \/ ScalarFault(EventNodesOf(files)[i]))
    => parsed = (IF ExpectedRows(files) = <<>> THEN [exc |-> "ValueError"]
                 ELSE [exc |-> "none", data |-> ExpectedRows(files)])

\* C2: a malformed document is skipped: for every input with a malformed document
\* and a well-formed one holding a valid event, parse_xml returns without error
\* exactly the events of the well-formed documents, in document order.
C2_MalformedDocumentIsSkipped ==
    (/\ Returned(parsed)
     /\ \E d \in 1..Len(files) : ~files[d].wellformed
     /\ ExpectedRows(files) # <<>>)
    => parsed = [exc |-> "none", data |-> ExpectedRows(files)]

\* C3: when every event of the input is well-formed (and there is one), parse_xml
\* returns one row per event node of the tree, in traversal order, fields copied,
\* cost and quantities parsed; and whenever it returns, its rows are exactly those
\* of the well-formed event nodes: no row comes from anything else.
C3_OneRowPerWellFormedEvent ==
    Returned(parsed) =>
        /\ (/\ EventNodesOf(files) # <<>>
            /\ \A i \in 1..Len(EventNodesOf(files)) : WellFormedEvent(EventNodesOf(files)[i]))
           => /\ parsed.exc = "none"
              /\ parsed.data = [i \in 1..Len(EventNodesOf(files)) |->
                                   ExpectedRow(EventNodesOf(files)[i])]
        /\ parsed.exc = "none" => parsed.data = ExpectedRows(files)

\* Two well-formed events, one of them nested below a child of the root, were
\* extracted from two documents, in document order.
C3_Witness ==
    /\ parsed.exc = "none"
    /\ Len(files) = 2
    /\ Len(parsed.data) = 2
    /\ parsed.data[1].order_id # parsed.data[2].order_id
    /\ \A d \in 1..Len(files) : files[d].wellformed /\ Len(files[d].nodes) = 1
    /\ \E d \in 1..Len(files) : \E i \in 1..Len(files[d].nodes) :
           files[d].nodes[i].tag = "event" /\ files[d].nodes[i].depth > 1

----------------------------------------------------------------------------
(* Claims about window_by_datetime, checked under SpecWindow.  `data` is   *)
(* the table after the first call: its rows in input order, date_time      *)
(* converted.                                                              *)

Windowed == w_d1 # Pending /\ w_d1.exc = "none"

Width == WidthOf[window]
SrcIdx == 1..Len(data.rows)
TimeOf(i) == data.rows[i].date_time
OrderOf(i) == data.rows[i].order_id

\* The positions <<entry, row>> of the rows of the returned mapping.
OutPos == UNION {{<<e, r>> : r \in 1..Len(w_d1.w_d[e].rows)} : e \in 1..Len(w_d1.w_d)}
OutRow(p) == w_d1.w_d[p[1]].rows[p[2]]

\* Midnight of the day of the order's first event, where its grid is anchored.
GridOrigin(o) ==
    LET first == CHOOSE i \in SrcIdx :
                     OrderOf(i) = o /\ \A j \in SrcIdx : OrderOf(j) = o => TimeOf(i) <= TimeOf(j)
    IN TimeOf(first) - (TimeOf(first) % Day)

\* The start of the bucket of the order's grid that holds event i.
BucketOf(i) == GridOrigin(OrderOf(i)) + ((TimeOf(i) - GridOrigin(OrderOf(i))) \div Width) * Width

EventsIn(o, b) == {i \in SrcIdx : OrderOf(i) = o /\ BucketOf(i) = b}

\* Of a set of events, the one with the greatest timestamp, the later in the input
\* when several share it.
Latest(S) ==
    CHOOSE i \in S : \A j \in S : TimeOf(j) < TimeOf(i) \/ (TimeOf(j) = TimeOf(i) /\ j <= i)

RowsFor(o, b) == {p \in OutPos : OutRow(p).order_id = Val(o) /\ OutRow(p).date_time = b}

C5_NoRowForEmptyBucket ==
    Windowed =>
        \A p \in OutPos :
            /\ ~OutRow(p).order_id.isna
            /\ \E i \in SrcIdx :
                   /\ Val(OrderOf(i)) = OutRow(p).order_id
                   /\ OutRow(p).date_time <= TimeOf(i)
                   /\ TimeOf(i) < OutRow(p).date_time + Width

\* C6: all orders share one grid, an event's bucket starting at its timestamp
\* floor-divided by the width: every event has its row on that grid, and every
\* row of the group stored under key k has bucket start k.
C6_OneSharedGrid ==
    Windowed =>
        /\ \A i \in SrcIdx :
               \E p \in OutPos :
                   /\ OutRow(p).order_id = Val(OrderOf(i))
                   /\ OutRow(p).date_time = (TimeOf(i) \div Width) * Width
        /\ \A p \in OutPos : OutRow(p).date_time = w_d1.w_d[p[1]].key

\* C10: window_by_datetime run twice in succession on the same table yields the
\* same mapping; nothing the first call leaves behind alters or prevents the
\* second result.
C10_SecondCallYieldsTheSame == w_d2 # Pending => w_d2 = w_d1

----------------------------------------------------------------------------
(* Claims about the empty results, checked under SpecRO.                   *)

\* The outcome is a non-empty result or the empty-result error.
NonEmptyOrValueError(r, field) ==
    r # Pending => \/ r.exc = "none" /\ r[field] # <<>>
                   \/ r.exc = "ValueError"

\* C7: process_to_RO (like parse_xml and window_by_datetime) returns a non-empty
\* result or fails with the empty-result error (ValueError): it never returns an
\* empty list and never reports the empty case with another kind of error.
C7_EmptyResultIsValueError == NonEmptyOrValueError(ro_out, "records")

----------------------------------------------------------------------------
(* Claims about pipeline, checked under Spec.                              *)

\* C8: a run that hits a batch-level failure surfaces it to pipeline's caller as
\* an error of the failure's kind.
C8_FailureReachesCaller ==
    (pc = "done" /\ caught # "none") => raised = caught

\* C9: no sink operation happens before reading, extraction, windowing and record
\* building have all completed with non-empty results; a run that found no file
\* or extracted no event has touched the sink not at all.
C9_NoSinkBeforeStagesComplete ==
    /\ sink # <<>> =>
           /\ run.xml_files.set /\ run.xml_files.v # <<>>
           /\ run.parsed_data.set /\ run.parsed_data.v.rows # <<>>
           /\ run.windowed_data.set /\ run.windowed_data.v # <<>>
           /\ run.structured_ro.set /\ run.structured_ro.v # <<>>
    /\ (pc = "done" /\ (~run.xml_files.set \/ ~run.parsed_data.set)) => sink = <<>>

\* A run over several records reached the sink: it connected and created the
\* table once the four stages had returned, and is about to insert.
C9_Witness ==
    /\ pc = "insert"
    /\ sink = <<"connect", "create">>
    /\ run.structured_ro.set
    /\ Len(run.structured_ro.v) >= 2

====
